---- MODULE Spec2Model ----
(***************************************************************************)
(* Model of agent/doctor_search_agent/agent.py: the find_doctors tool, its *)
(* two location helpers (geocode_city, get_location_from_ip) and the       *)
(* three outbound HTTP requests it sequences.                              *)
(*                                                                         *)
(* Conventions.                                                            *)
(*   - A Python Optional value is a tuple of length 0 or 1: None is <<>>,  *)
(*     a present value v is <<v>>.  The same shape stands for a JSON key   *)
(*     that may be missing from a response.                                *)
(*   - A Python str is a tuple of one-character strings, so that strip()   *)
(*     and f-string concatenation are computed, not assumed.               *)
(*   - Fixed message literals of the source are kept as TLA+ strings.      *)
(*   - One action per block of find_doctors between two outbound calls:    *)
(*     the reply of each collaborator is the action's input.               *)
(***************************************************************************)
EXTENDS Integers, Sequences, FiniteSets, TLC

VARIABLES
    pc,             \* "idle" | "geocode" | "ip" | "search" | "done"
    args,           \* the arguments find_doctors was called with
    lat, lng,       \* the locals lat / lng (reassigned by the resolution steps)
    detected_city,  \* the local detected_city (Optional: unset until line 89/95)
    keyword,        \* the local keyword (Optional: unset until line 97)
    params,         \* the local params (Optional: unset until line 100)
    geo,            \* reply of the geocoding request of this invocation (Optional)
    ipr,            \* reply of the IP-geolocation request of this invocation (Optional)
    resp,           \* reply of the nearby-search request of this invocation (Optional)
    calls,          \* outbound requests issued by this invocation, in order
    ret             \* how the invocation ended: [kind, val]

vars == <<pc, args, lat, lng, detected_city, keyword, params, geo, ipr, resp, calls, ret>>

(***************************************************************************)
(* Bounds and program constants                                            *)
(***************************************************************************)
\* longest upstream result list the nearby-search reply may carry
MaxResults == 20

\* agent.py:102  "radius": min(radius_km * 1000, 50000)
RADIUS_CAP_M == 50000
\* agent.py:102  kilometres to metres
M_PER_KM == 1000
\* agent.py:115  resp.get("results", [])[:12]
TOP_N == 12
\* agent.py:60   radius_km: int = 20
DEFAULT_RADIUS_KM == 20

(***************************************************************************)
(* Python values                                                           *)
(***************************************************************************)
None == <<>>
Some(v) == <<v>>

\* truthiness of an Optional[float]: None and 0.0 are both falsy
TruthyNum(x) == x # None /\ x[1] # 0
\* truthiness of an Optional[str]: None and "" are both falsy
TruthyStr(x) == x # None /\ x[1] # <<>>

\* dict.get(key, default) on a key that may be missing
Get(field, default) == IF field = None THEN default ELSE field[1]

Min(a, b) == IF a <= b THEN a ELSE b

\* characters str.strip() removes
Whitespace == {" ", "\t", "\n"}

RECURSIVE lstrip(_)
lstrip(s) == IF s # <<>> /\ Head(s) \in Whitespace THEN lstrip(Tail(s)) ELSE s

RECURSIVE rstrip(_)
rstrip(s) ==
    IF s # <<>> /\ s[Len(s)] \in Whitespace THEN rstrip(SubSeq(s, 1, Len(s) - 1)) ELSE s

\* str.strip()
strip(s) == rstrip(lstrip(s))

\* lst[:n]
Take(s, n) == SubSeq(s, 1, Min(Len(s), n))

(***************************************************************************)
(* String literals of the source                                           *)
(***************************************************************************)
STR_doctor == <<"d", "o", "c", "t", "o", "r">>
STR_doctors == <<"d", "o", "c", "t", "o", "r", "s">>
STR_your_area == <<"y", "o", "u", "r", " ", "a", "r", "e", "a">>
STR_Unknown == <<"U", "n", "k", "n", "o", "w", "n">>
STR_No_address == <<"N", "o", " ", "a", "d", "d", "r", "e", "s", "s">>
STR_No_rating == <<"N", "o", " ", "r", "a", "t", "i", "n", "g">>

\* A message is the tuple of its segments: a fixed message has one segment, an
\* f-string has one per literal piece and one per interpolated value.
ERR_LOCATION == <<"Unable to detect your location. Please provide a city name.">>
ERR_DENIED == <<"Google Places API not enabled or billing inactive.">>
ERR_QUOTA == <<"API quota exceeded.">>

API_KEY == "GOOGLE_MAPS_API_KEY"

(***************************************************************************)
(* str() of the values an f-string interpolates                            *)
(***************************************************************************)
Digits == <<"0", "1", "2", "3", "4", "5", "6", "7", "8", "9">>

\* str(n) for an int n >= 0
RECURSIVE IntStr(_)
IntStr(n) == IF n < 10 THEN <<Digits[n + 1]>> ELSE IntStr(n \div 10) \o <<Digits[(n % 10) + 1]>>

\* str(x) for x in {None, True, False}
OpenNowStr(x) ==
    IF x = None THEN <<"N", "o", "n", "e">>
    ELSE IF x[1] THEN <<"T", "r", "u", "e">>
    ELSE <<"F", "a", "l", "s", "e">>

(***************************************************************************)
(* Inputs: the arguments of find_doctors                                   *)
(***************************************************************************)
Specialties ==
    { None, Some(<<>>), Some(<<" ", " ">>),
      Some(<<" ", "e", "n", "t", "\n">>), Some(<<"e", " ", "n", "t">>) }
Cities == { None, Some(<<>>), Some(<<"G", "o", "a">>) }
Lats == { None, Some(0), Some(1) }
Lngs == { None, Some(0), Some(2) }
Radii == { DEFAULT_RADIUS_KM, 50, 200 }

Args == [specialty : Specialties, city : Cities, lat : Lats, lng : Lngs, radius_km : Radii]

(***************************************************************************)
(* Inputs: the replies of the three collaborators                          *)
(***************************************************************************)
\* requests.get raised / r.json() raised / a JSON object came back
Failed(kind) == [kind |-> kind, body |-> None]
Json(body) == [kind |-> "json", body |-> Some(body)]

GeoLoc(la, ln) == [lat |-> la, lng |-> ln]

GeoReplies ==
    { Failed("network_error"), Failed("unparsable") }
    \cup { Json([status |-> None, results |-> None]),
           Json([status |-> Some("ZERO_RESULTS"), results |-> Some(<<>>)]),
           Json([status |-> Some("REQUEST_DENIED"), results |-> Some(<<>>)]),
           Json([status |-> Some("OK"), results |-> Some(<<>>)]),
           Json([status |-> Some("OK"), results |-> None]),
           Json([status |-> Some("OK"), results |-> Some(<<GeoLoc(Some(3), None)>>)]) }
    \cup { Json([status |-> Some("OK"),
                 results |-> Some(<<GeoLoc(Some(la), Some(ln)), GeoLoc(Some(7), Some(8))>>)])
           : la \in {0, 3}, ln \in {0, 4} }

IpBody(st, la, lo, c, cc) ==
    [status |-> st, lat |-> la, lon |-> lo, city |-> c, countryCode |-> cc]

IpReplies ==
    { Failed("network_error"), Failed("unparsable") }
    \cup { Json(IpBody(None, None, None, None, None)),
           Json(IpBody(Some("fail"), None, None, None, None)),
           Json(IpBody(Some("fail"), Some(6), Some(5), Some(<<"O", "s", "l", "o">>), Some(<<"N", "O">>))),
           Json(IpBody(Some("success"), None, Some(5), Some(<<"O", "s", "l", "o">>), Some(<<"N", "O">>))),
           Json(IpBody(Some("success"), Some(6), Some(5), None, None)),
           Json(IpBody(Some("success"), Some(6), Some(5), Some(<<"G", "o", "a">>), Some(<<"I", "N">>))),
           Json(IpBody(Some("success"), Some(0), Some(5), Some(<<"O", "s", "l", "o">>), Some(<<"N", "O">>))),
           Json(IpBody(Some("success"), Some(6), Some(0), Some(<<"O", "s", "l", "o">>), None)) }

Letters == <<"a", "b", "c", "d", "e", "f", "g", "h", "i", "j", "k", "l", "m",
             "n", "o", "p", "q", "r", "s", "t", "u", "v", "w", "x", "y", "z">>

\* The k-th place of an upstream list of n places.  Pattern "near_first" lists
\* the places nearest first and best rated last; "far_first" the other way
\* round, with the optional keys left out.  `bad` is the position of a place
\* that carries no "geometry" key (0: every place carries one).
Place(k, n, pattern, bad) ==
    IF pattern = "near_first"
    THEN [name |-> Some(<<"D", "r", " ", Letters[k]>>),
          vicinity |-> Some(<<"R", "d", " ", Letters[k]>>),
          rating |-> Some((k % 5) + 1),
          user_ratings_total |-> Some(10 * k),
          geometry |-> IF k = bad THEN None ELSE Some([lat |-> k, lng |-> k]),
          opening_hours |-> Some([open_now |-> Some(k % 2 = 0)])]
    ELSE [name |-> IF k % 2 = 0 THEN None ELSE Some(<<"D", "r", " ", Letters[n - k + 1]>>),
          vicinity |-> None,
          rating |-> IF k % 3 = 0 THEN None ELSE Some(((n - k) % 5) + 1),
          user_ratings_total |-> None,
          geometry |-> IF k = bad THEN None ELSE Some([lat |-> n - k, lng |-> 0]),
          opening_hours |-> IF k % 2 = 0 THEN None ELSE Some([open_now |-> None])]

Places(n, pattern, bad) == [k \in 1..n |-> Place(k, n, pattern, bad)]

SearchBody(st, res) == [status |-> st, results |-> res]

SearchReplies ==
    { Failed("network_error"), Failed("unparsable") }
    \cup { Json(SearchBody(None, None)),
           Json(SearchBody(Some("REQUEST_DENIED"), None)),
           Json(SearchBody(Some("OVER_QUERY_LIMIT"), Some(<<>>))),
           Json(SearchBody(Some("ZERO_RESULTS"), Some(<<>>))) }
    \cup UNION { { Json(SearchBody(Some("OK"), Some(Places(n, pattern, bad))))
                    : pattern \in {"near_first", "far_first"}, bad \in {0, n} }
                  : n \in 1..MaxResults }

(***************************************************************************)
(* State after import: no invocation in progress                           *)
(***************************************************************************)
NoReturn == [kind |-> "none", val |-> None]
Raised(exc) == [kind |-> "raised", val |-> exc]
Error(msg) == [kind |-> "error", val |-> msg]
Text(header, lines) == [kind |-> "text", val |-> [header |-> header, lines |-> lines]]

NoArgs ==
    [specialty |-> None, city |-> None, lat |-> None, lng |-> None,
     radius_km |-> DEFAULT_RADIUS_KM]

Init ==
    /\ pc = "idle"
    /\ args = NoArgs
    /\ lat = None
    /\ lng = None
    /\ detected_city = None
    /\ keyword = None
    /\ params = None
    /\ geo = None
    /\ ipr = None
    /\ resp = None
    /\ calls = <<>>
    /\ ret = NoReturn

(***************************************************************************)
(* find_doctors, lines 79-105                                              *)
(***************************************************************************)
\* line 79: city and not (lat and lng)
NeedsGeocode(c, la, ln) == TruthyStr(c) /\ ~(TruthyNum(la) /\ TruthyNum(ln))

\* line 84: not (lat and lng)
NeedsIp(la, ln) == ~(TruthyNum(la) /\ TruthyNum(ln))

\* line 97: specialty.strip() if specialty else "doctor"
Keyword(sp) == IF TruthyStr(sp) THEN strip(sp[1]) ELSE STR_doctor

\* RadiusMeters without the cap of line 102
RadiusMetersUncapped(radius_km) == radius_km * M_PER_KM

\* line 102: min(radius_km * 1000, 50000)
RadiusMeters(radius_km) == Min(radius_km * M_PER_KM, RADIUS_CAP_M)

\* lines 100-105: the query of the nearby search
Params(la, ln, radius_km, kw) ==
    [location |-> <<la, ln>>, radius |-> RadiusMeters(radius_km), keyword |-> kw,
     key |-> API_KEY]

\* line 95: city or "your area"
CityOrYourArea(c) == IF TruthyStr(c) THEN c[1] ELSE STR_your_area

\* IpLabel without the country code
IpLabelCityOnly(ip) == ip.city

\* line 89: f"{ip['city']}, {ip['country']}"
IpLabel(ip) == ip.city \o <<",", " ">> \o ip.country

\* lines 97-105: with the origin (la, ln) and its label settled, shape the
\* nearby-search request; the request itself is the next outbound call
ShapeRequest(la, ln, label) ==
    /\ lat' = la
    /\ lng' = ln
    /\ detected_city' = Some(label)
    /\ keyword' = Some(Keyword(args'.specialty))
    /\ params' = Some(Params(la[1], ln[1], args'.radius_km, Keyword(args'.specialty)))
    /\ pc' = "search"
    /\ ret' = NoReturn

\* lines 84-95: the locals lat / lng hold (la, ln) when line 84 is reached
Line84(la, ln) ==
    IF NeedsIp(la, ln)
    THEN /\ lat' = la
         /\ lng' = ln
         /\ pc' = "ip"
         /\ ret' = NoReturn
         /\ UNCHANGED <<detected_city, keyword, params>>
    ELSE ShapeRequest(la, ln, CityOrYourArea(args'.city))

\* lines 55-79: the front-end calls the tool with arguments a
FindDoctors(a) ==
    /\ pc = "idle"
    /\ args' = a
    /\ calls' = <<>>
    /\ geo' = None
    /\ ipr' = None
    /\ resp' = None
    /\ IF NeedsGeocode(a.city, a.lat, a.lng)
       THEN /\ pc' = "geocode"
            /\ lat' = a.lat
            /\ lng' = a.lng
            /\ detected_city' = None
            /\ keyword' = None
            /\ params' = None
            /\ ret' = NoReturn
       ELSE Line84(a.lat, a.lng)

\* an exception leaves find_doctors: nothing in lines 76-150 catches it
Raise(exc) ==
    /\ pc' = "done"
    /\ ret' = Raised(exc)
    /\ UNCHANGED <<lat, lng, detected_city, keyword, params>>

\* a value is returned
Return(v) ==
    /\ pc' = "done"
    /\ ret' = v
    /\ UNCHANGED <<lat, lng, detected_city, keyword, params>>

(***************************************************************************)
(* geocode_city, lines 41-49, and its call site, lines 79-82               *)
(***************************************************************************)
Threw(exc) == [exc |-> Some(exc), val |-> None]
Gave(v) == [exc |-> None, val |-> Some(v)]

\* what geocode_city does with the reply of its request: the exception that
\* leaves it, or the pair it returns
geocode_city(reply) ==
    IF reply.kind = "network_error" THEN Threw("ConnectionError")
    ELSE IF reply.kind = "unparsable" THEN Threw("JSONDecodeError")
    ELSE LET r == reply.body[1] IN
         IF r.status = Some("OK")
         THEN IF r.results = None THEN Threw("KeyError")
              ELSE IF r.results[1] = <<>> THEN Threw("IndexError")
              ELSE LET loc == r.results[1][1] IN
                   IF loc.lat = None \/ loc.lng = None THEN Threw("KeyError")
                   ELSE Gave([lat |-> loc.lat, lng |-> loc.lng])
         ELSE Gave([lat |-> None, lng |-> None])

Geocode(reply) ==
    /\ pc = "geocode"
    /\ calls' = Append(calls, [api |-> "geocode",
                               query |-> [address |-> args.city[1], key |-> API_KEY]])
    /\ geo' = Some(reply)
    /\ UNCHANGED <<args, ipr, resp>>
    /\ LET r == geocode_city(reply) IN
       IF r.exc # None THEN Raise(r.exc[1]) ELSE Line84(r.val[1].lat, r.val[1].lng)

(***************************************************************************)
(* get_location_from_ip, lines 25-39, and its call site, lines 84-93       *)
(***************************************************************************)
\* get_location_from_ip without the status test of line 30
get_location_from_ip_any_status(reply) ==
    IF reply.kind # "json" THEN None
    ELSE LET data == reply.body[1] IN
         IF data.lat = None \/ data.lon = None THEN None
         ELSE Some([city |-> Get(data.city, STR_Unknown),
                    country |-> Get(data.countryCode, <<>>),
                    lat |-> data.lat[1],
                    lng |-> data.lon[1]])

\* None, or the dict of lines 31-36; every exception is caught at line 37
get_location_from_ip(reply) ==
    IF reply.kind # "json" THEN None
    ELSE LET data == reply.body[1] IN
         IF data.status = None THEN None
         ELSE IF data.status # Some("success") THEN None
         ELSE IF data.lat = None \/ data.lon = None THEN None
         ELSE Some([city |-> Get(data.city, STR_Unknown),
                    country |-> Get(data.countryCode, <<>>),
                    lat |-> data.lat[1],
                    lng |-> data.lon[1]])

IpLookup(reply) ==
    /\ pc = "ip"
    /\ calls' = Append(calls, [api |-> "ip", query |-> <<>>])  \* line 28: no parameters
    /\ ipr' = Some(reply)
    /\ UNCHANGED <<args, geo, resp>>
    /\ LET ip == get_location_from_ip(reply) IN
       IF ip # None
       THEN ShapeRequest(Some(ip[1].lat), Some(ip[1].lng), IpLabel(ip[1]))
       ELSE Return(Error(ERR_LOCATION))

(***************************************************************************)
(* find_doctors, lines 108-150: the nearby search and the listing          *)
(***************************************************************************)
\* lines 18-23.  The trigonometry has no counterpart here: the distance is kept
\* as the application of the function to its four arguments.
haversine_km(lat1, lng1, lat2, lng2) == [from |-> <<lat1, lng1>>, to |-> <<lat2, lng2>>]

\* TopPlaces without the slice of line 115
TopPlacesUncut(body) == Get(body.results, <<>>)

\* line 115: resp.get("results", [])[:12]
TopPlaces(body) == Take(Get(body.results, <<>>), TOP_N)

\* line 120
NoDoctorsMsg(radius_km, label) ==
    <<"No doctors found within ", IntStr(radius_km), " km of ", label, ".">>

\* lines 124-134: the dict built from place p, seen from the origin (la, ln)
Result(p, la, ln) ==
    [name |-> Get(p.name, STR_Unknown),
     address |-> Get(p.vicinity, STR_No_address),
     rating |-> IF p.rating = None THEN STR_No_rating ELSE IntStr(p.rating[1]),
     reviews |-> IntStr(Get(p.user_ratings_total, 0)),
     distance_km |-> haversine_km(la, ln, p.geometry[1].lat, p.geometry[1].lng),
     open_now |-> IF p.opening_hours = None THEN None ELSE p.opening_hours[1].open_now]

\* line 139: the values interpolated into line i, in the order of the f-string
Line(i, d) == <<IntStr(i), d.name, d.rating, d.reviews, d.distance_km, OpenNowStr(d.open_now)>>

\* lines 122-142: one line per place, numbered from 1, in the order of places
Lines(places, la, ln) == [i \in 1..Len(places) |-> Line(i, Result(places[i], la, ln))]

\* line 145: specialty or 'doctors'
SpecialtyOrDoctors(sp) == IF TruthyStr(sp) THEN sp[1] ELSE STR_doctors

Search(reply) ==
    /\ pc = "search"
    /\ calls' = Append(calls, [api |-> "nearbysearch", query |-> params[1]])
    /\ resp' = Some(reply)
    /\ UNCHANGED <<args, geo, ipr>>
    /\ IF reply.kind = "network_error" THEN Raise("ConnectionError")
       ELSE IF reply.kind = "unparsable" THEN Raise("JSONDecodeError")
       ELSE LET body == reply.body[1]
                places == TopPlaces(body)
            IN  IF body.status = Some("REQUEST_DENIED") THEN Return(Error(ERR_DENIED))
                ELSE IF body.status = Some("OVER_QUERY_LIMIT") THEN Return(Error(ERR_QUOTA))
                ELSE IF places = <<>>
                THEN Return(Error(NoDoctorsMsg(args.radius_km, detected_city[1])))
                ELSE IF \E k \in 1..Len(places) : places[k].geometry = None
                THEN Raise("KeyError")
                ELSE Return(Text(<<SpecialtyOrDoctors(args.specialty), detected_city[1]>>,
                                 Lines(places, lat[1], lng[1])))

\* the call is over: its locals are gone and the tool can be called again
Finish ==
    /\ pc = "done"
    /\ pc' = "idle"
    /\ args' = NoArgs
    /\ lat' = None
    /\ lng' = None
    /\ detected_city' = None
    /\ keyword' = None
    /\ params' = None
    /\ geo' = None
    /\ ipr' = None
    /\ resp' = None
    /\ calls' = <<>>
    /\ ret' = NoReturn

Next ==
    \/ \E a \in Args : FindDoctors(a)
    \/ \E reply \in GeoReplies : Geocode(reply)
    \/ \E reply \in IpReplies : IpLookup(reply)
    \/ \E reply \in SearchReplies : Search(reply)
    \/ Finish

Spec == Init /\ [][Next]_vars

(***************************************************************************)
(* Vocabulary of the properties                                            *)
(***************************************************************************)
Apis == [i \in 1..Len(calls) |-> calls[i].api]
Invoked(api) == \E i \in 1..Len(calls) : calls[i].api = api
SearchCalls == { i \in 1..Len(calls) : calls[i].api = "nearbysearch" }

\* both coordinates were passed and neither is None
CoordsSupplied == args.lat # None /\ args.lng # None
\* a city was passed and no coordinate was
CityNoCoords == TruthyStr(args.city) /\ args.lat = None /\ args.lng = None

\* the geocoding request of this invocation was answered, with status "OK"
GeoAnsweredOk ==
    geo # None /\ geo[1].kind = "json" /\ geo[1].body[1].status = Some("OK")
\* ... was answered, with a status other than "OK"
GeoAnsweredNotOk ==
    geo # None /\ geo[1].kind = "json" /\ geo[1].body[1].status # Some("OK")
\* the answer carries a first result with both coordinates
GeoHasCoordinate ==
    /\ GeoAnsweredOk
    /\ geo[1].body[1].results # None
    /\ geo[1].body[1].results[1] # <<>>
    /\ geo[1].body[1].results[1][1].lat # None
    /\ geo[1].body[1].results[1][1].lng # None
GeoFirst == geo[1].body[1].results[1][1]

\* the IP-geolocation request of this invocation was answered with status
\* "success" and both coordinates
IpSucceeded ==
    /\ ipr # None
    /\ ipr[1].kind = "json"
    /\ ipr[1].body[1].status = Some("success")
    /\ ipr[1].body[1].lat # None
    /\ ipr[1].body[1].lon # None
\* the request was made and did not succeed: network error, unparsable or
\* incomplete answer, or a status other than "success"
IpFailed == ipr # None /\ ~IpSucceeded

(***************************************************************************)
(* C1                                                                      *)
(***************************************************************************)
\* C1: when both lat and lng are supplied and non-null (0.0 included, with or
\* without a city), neither the geocoding nor the IP-geolocation collaborator
\* is invoked, and the supplied pair is the location of the nearby search.
\* Fails: line 79 and line 84 test the truth value of lat and lng, and 0.0 is
\* falsy, so a supplied 0.0 is treated as missing.
C1_SuppliedCoordinatesUsed ==
    CoordsSupplied =>
        /\ ~Invoked("geocode")
        /\ ~Invoked("ip")
        /\ params # None => params[1].location = <<args.lat[1], args.lng[1]>>
        /\ \A i \in SearchCalls : calls[i].query.location = <<args.lat[1], args.lng[1]>>

(***************************************************************************)
(* C2                                                                      *)
(***************************************************************************)
\* C2: with a city and no coordinates, if geocoding answers "OK" then the
\* location of the nearby search is the first geocoded result exactly (a
\* latitude or longitude of 0 included) and the IP-geolocation collaborator
\* is not invoked.
\* Fails: a geocoded 0 is falsy at line 84, so the IP lookup runs and its
\* coordinate replaces the geocoded one.
C2_GeocodedCoordinateUsed ==
    (CityNoCoords /\ GeoHasCoordinate) =>
        /\ ~Invoked("ip")
        /\ params # None => params[1].location = <<GeoFirst.lat[1], GeoFirst.lng[1]>>
        /\ \A i \in SearchCalls :
               calls[i].query.location = <<GeoFirst.lat[1], GeoFirst.lng[1]>>

(***************************************************************************)
(* C3                                                                      *)
(***************************************************************************)
\* C3: with a city and no coordinates, if geocoding answers a status other
\* than "OK", the IP-geolocation collaborator is the next one invoked; when it
\* succeeds, the search proceeds from the IP coordinate and the label is
\* "{city}, {countryCode}" of the IP answer (a missing city reads "Unknown", a
\* missing countryCode reads ""), not the supplied city.
C3_FallsBackToIp ==
    (CityNoCoords /\ GeoAnsweredNotOk) =>
        /\ Apis[1] = "geocode"
        /\ pc = "ip" \/ (Len(calls) >= 2 /\ Apis[2] = "ip")
        /\ IpSucceeded =>
             LET data == ipr[1].body[1] IN
             /\ pc \in {"search", "done"}
             /\ params[1].location = <<data.lat[1], data.lon[1]>>
             /\ detected_city =
                    Some(Get(data.city, STR_Unknown) \o <<",", " ">> \o Get(data.countryCode, <<>>))
             /\ detected_city # args.city
             /\ \A i \in SearchCalls : calls[i].query.location = <<data.lat[1], data.lon[1]>>

\* a listing was returned after a failed geocode and a successful IP lookup
\* whose answer names a city and a country
C3_Witness ==
    /\ CityNoCoords
    /\ GeoAnsweredNotOk
    /\ IpSucceeded
    /\ ipr[1].body[1].city # None
    /\ ipr[1].body[1].countryCode # None
    /\ Apis = <<"geocode", "ip", "nearbysearch">>
    /\ ret.kind = "text"

(***************************************************************************)
(* C4                                                                      *)
(***************************************************************************)
\* C4: the radius of every nearby-search request is
\* min(radius_km * 1000, 50000): it never exceeds 50000 metres.
C4_RadiusCapped ==
    \A i \in SearchCalls :
        /\ calls[i].query.radius <= 50000
        /\ args.radius_km * 1000 <= 50000 => calls[i].query.radius = args.radius_km * 1000
        /\ args.radius_km * 1000 > 50000 => calls[i].query.radius = 50000

\* a search was requested with radius_km = 200 and sent with radius 50000
C4_Witness ==
    \E i \in SearchCalls : args.radius_km = 200 /\ calls[i].query.radius = 50000

(***************************************************************************)
(* C5                                                                      *)
(***************************************************************************)
Blank(str) == \A i \in 1..Len(str) : str[i] \in Whitespace

\* C5: the keyword of the nearby search is the specialty with surrounding
\* whitespace trimmed, exactly "doctor" when the specialty is null, empty or
\* blank, and never the empty string.
\* Fails: line 97 tests the truth value of the untrimmed specialty, so a
\* whitespace-only specialty is trimmed to "" and sent.
C5_KeywordDefaulted ==
    \A i \in SearchCalls :
        /\ calls[i].query.keyword # <<>>
        /\ IF args.specialty = None \/ Blank(args.specialty[1])
           THEN calls[i].query.keyword = STR_doctor
           ELSE calls[i].query.keyword = strip(args.specialty[1])

(***************************************************************************)
(* C6                                                                      *)
(***************************************************************************)
\* the nearby search was answered with a result list
HasUpstream ==
    resp # None /\ resp[1].kind = "json" /\ resp[1].body[1].results # None
Upstream == resp[1].body[1].results[1]
\* ... with a status that is not a denial, a non-empty list, and a "geometry"
\* in each of its first 12 places
UpstreamUsable ==
    /\ HasUpstream
    /\ resp[1].body[1].status \notin {Some("REQUEST_DENIED"), Some("OVER_QUERY_LIMIT")}
    /\ Len(Upstream) >= 1
    /\ \A k \in 1..Len(Upstream) : k <= 12 => Upstream[k].geometry # None

\* C6: for an upstream result list of length n >= 1 the listing has exactly
\* min(n, 12) numbered lines and line i is built from the i-th upstream place:
\* the first 12 in upstream order, not reordered by distance or rating.
C6_FirstTwelveInOrder ==
    /\ (pc = "done" /\ UpstreamUsable) => ret.kind = "text"
    /\ ret.kind = "text" =>
         /\ UpstreamUsable
         /\ Len(ret.val.lines) = (IF Len(Upstream) <= 12 THEN Len(Upstream) ELSE 12)
         /\ \A i \in 1..Len(ret.val.lines) :
                ret.val.lines[i] = Line(i, Result(Upstream[i], lat[1], lng[1]))

\* a listing of 12 lines was rendered from an upstream list of 20 places,
\* listed farthest first
C6_Witness ==
    /\ ret.kind = "text"
    /\ Len(Upstream) = 20
    /\ Len(ret.val.lines) = 12
    /\ Upstream[1].geometry[1].lat > Upstream[2].geometry[1].lat

(***************************************************************************)
(* C7                                                                      *)
(***************************************************************************)
\* C7: under every combination of collaborator outcomes an invocation ends by
\* returning either the listing of a non-empty result list or one error value;
\* it never raises.
\* Fails: only get_location_from_ip catches exceptions; those of the geocoding
\* and nearby-search requests, and of reading their answers, leave find_doctors.
C7_ListingOrError ==
    pc = "done" =>
        \/ ret.kind = "text" /\ Len(ret.val.lines) >= 1
        \/ ret.kind = "error"

(***************************************************************************)
(* C8                                                                      *)
(***************************************************************************)
\* C8: when the IP-geolocation step is reached and fails (network error,
\* non-"success" status, or exception), find_doctors returns the error "Unable
\* to detect your location. Please provide a city name." and issues no
\* nearby-search request.
C8_IpFailureIsTerminal ==
    IpFailed =>
        /\ pc = "done"
        /\ ret.kind = "error"
        /\ ret.val = <<"Unable to detect your location. Please provide a city name.">>
        /\ ~Invoked("nearbysearch")
        /\ params = None

\* the IP lookup ran after a failed geocode, answered with a status other than
\* "success", and the invocation ended
C8_Witness ==
    /\ IpFailed
    /\ ipr[1].kind = "json"
    /\ ipr[1].body[1].status = Some("fail")
    /\ Apis = <<"geocode", "ip">>
    /\ pc = "done"

(***************************************************************************)
(* C9                                                                      *)
(***************************************************************************)
\* the geocoding request failed by network error, by an unparsable answer, or
\* by an answer with no result entry
GeoFailed ==
    /\ geo # None
    /\ \/ geo[1].kind \in {"network_error", "unparsable"}
       \/ geo[1].body[1].results = None
       \/ geo[1].body[1].results[1] = <<>>

\* C9: with a city and no coordinates, a geocoding step that fails by
\* network/timeout error, unparsable answer or an answer with no result entry
\* is swallowed: nothing is raised to the caller, and the IP-geolocation step
\* comes next.
\* Fails: geocode_city has no try/except, and reads results[0] whenever the
\* status is "OK".
C9_GeocodeFailureSwallowed ==
    (CityNoCoords /\ GeoFailed) =>
        /\ ret.kind = "raised" => Invoked("nearbysearch")
        /\ pc = "ip" \/ (Len(calls) >= 2 /\ Apis[2] = "ip")

(***************************************************************************)
(* C10                                                                     *)
(***************************************************************************)
Rank(api) == CASE api = "geocode" -> 1 [] api = "ip" -> 2 [] api = "nearbysearch" -> 3

\* C10: an invocation makes at most three outbound calls, strictly in the
\* order geocoding, IP lookup, nearby search, none repeated; geocoding and IP
\* lookup both occur only when the geocode yielded no coordinate; exactly one
\* nearby-search call is made per invocation.
\* Fails: a geocoded 0 is discarded at line 84 (both lookups run although the
\* geocode yielded a coordinate); and an invocation that ends at the IP step,
\* or by an exception of the geocoding step, makes no nearby-search call.
C10_CallBudget ==
    /\ Len(calls) <= 3
    /\ \A i, j \in 1..Len(calls) : i < j => Rank(Apis[i]) < Rank(Apis[j])
    /\ (Invoked("geocode") /\ Invoked("ip")) => ~GeoHasCoordinate
    /\ pc = "done" => Cardinality(SearchCalls) = 1

====
